---- MODULE Spec2Model ----
(***************************************************************************)
(* A model of mlops/nyc_taxi/src/mlops_pipeline.py: the dataset resolver   *)
(* and the job-graph assembly of construct_pipeline, and the submission    *)
(* and status-polling loop of execute_pipeline.                            *)
(*                                                                         *)
(* Three specifications share the variables:                               *)
(*   SpecResolver  the resolver loop of construct_pipeline as a function   *)
(*                 of (data_config, deploy_environment);                   *)
(*   SpecAssemble  repeated calls of construct_pipeline in one process,    *)
(*                 with the module-level list gl_pipeline_components;      *)
(*   SpecPoller    one call of execute_pipeline (FairPoller: the same,     *)
(*                 with the progress a running interpreter guarantees).    *)
(***************************************************************************)
EXTENDS Integers, Sequences, FiniteSets, TLC

VARIABLES
    \* ---- construct_pipeline: resolver
    data_config,          \* data_config['datasets'], a sequence of elements
    deploy_environment,   \* the target environment tag
    dataset_name,         \* local dataset_name (NoneValue = Python None)
    resolver_pc,          \* "idle" | "start" | "done" | "KeyError"
    \* ---- construct_pipeline: assembly
    gl_pipeline_components, \* the module-level list
    pipeline_job,         \* the job graph returned by the last successful call
    calls,                \* number of construct_pipeline calls made so far
    last_call,            \* what the last call did and with which arguments
    \* ---- execute_pipeline
    pc,                   \* position in execute_pipeline
    wait_for_completion,  \* argument (a string)
    output_file,          \* argument (NoneValue or a path)
    file_content,         \* content of the file at the output path
    prior_content,        \* its content before the call (never changes)
    job_name,             \* pipeline_job.name returned by the submission
    status,               \* pipeline_job.status as last observed
    current_wait_time,    \* the elapsed counter
    slept,                \* total time passed to time.sleep
    fetches,              \* number of client.jobs.get calls that returned
    exc,                  \* the exception the call raised, NoExc if none
    exit_by,              \* how the while loop was left
    steady                \* the loop was entered and every fetch so far
                          \* returned an in-progress status

vars == << data_config, deploy_environment, dataset_name, resolver_pc,
           gl_pipeline_components, pipeline_job, calls, last_call,
           pc, wait_for_completion, output_file, file_content, prior_content,
           job_name, status, current_wait_time, slept, fetches, exc,
           exit_by, steady >>

resolverVars == << data_config, deploy_environment, dataset_name, resolver_pc >>
assembleVars == << gl_pipeline_components, pipeline_job, calls, last_call >>
pollerVars   == << pc, wait_for_completion, output_file, file_content,
                   prior_content, job_name, status, current_wait_time,
                   slept, fetches, exc, exit_by, steady >>

\* Python None, and a key that is missing from a JSON object.
NoneValue == "None"
Absent    == "<absent>"

(***************************************************************************)
(* Bounds of the model.                                                    *)
(***************************************************************************)
MaxEntries == 3     \* longest data_config['datasets'] list
MaxCalls   == 2     \* construct_pipeline calls in one process


(***************************************************************************)
(* The config resolver of construct_pipeline (lines 101-107).              *)
(*                                                                         *)
(* An element of data_config['datasets'] is a JSON object; a key it does   *)
(* not carry has the value Absent.                                         *)
(***************************************************************************)
EnvNames     == {"dev", "prod"}
DatasetNames == {"d1", "d2"}
Purposes     == {"training"}

Elements == [DATA_PURPOSE : Purposes \cup {Absent},
             ENV_NAME     : EnvNames \cup {Absent},
             DATASET_NAME : DatasetNames \cup {Absent}]

ConfigsUpTo(n) == UNION {[1..k -> Elements] : k \in 0..n}

\* line 105: 'DATA_PURPOSE' in elem and 'ENV_NAME' in elem
Tagged(elem) == elem.DATA_PURPOSE # Absent /\ elem.ENV_NAME # Absent

\* A mutant of Matches: the comparison with the target tag is lost.
Matches_any(elem, target) == TRUE

\* line 106: deploy_environment == elem['ENV_NAME']
Matches(elem, target) == target = elem.ENV_NAME

\* A mutant of ResolveFrom: the loop stops at the first match.
RECURSIVE ResolveFrom_first(_, _, _, _)
ResolveFrom_first(cfg, target, i, acc) ==
    IF i > Len(cfg)
    THEN [raised |-> FALSE, dataset_name |-> acc]
    ELSE IF Tagged(cfg[i]) /\ Matches(cfg[i], target)
         THEN IF cfg[i].DATASET_NAME = Absent
              THEN [raised |-> TRUE, dataset_name |-> acc]
              ELSE [raised |-> FALSE, dataset_name |-> cfg[i].DATASET_NAME]
         ELSE ResolveFrom_first(cfg, target, i + 1, acc)

\* lines 104-107: the for loop from element i on, dataset_name being acc.
\* elem["DATASET_NAME"] of an element without that key raises KeyError.
RECURSIVE ResolveFrom(_, _, _, _)
ResolveFrom(cfg, target, i, acc) ==
    IF i > Len(cfg)
    THEN [raised |-> FALSE, dataset_name |-> acc]
    ELSE IF Tagged(cfg[i]) /\ Matches(cfg[i], target)
         THEN IF cfg[i].DATASET_NAME = Absent
              THEN [raised |-> TRUE, dataset_name |-> acc]
              ELSE ResolveFrom(cfg, target, i + 1, cfg[i].DATASET_NAME)
         ELSE ResolveFrom(cfg, target, i + 1, acc)

\* lines 101-107
ResolveDataset(cfg, target) == ResolveFrom(cfg, target, 1, NoneValue)

(***************************************************************************)
(* The job graph (lines 28-72) and construct_pipeline (lines 75-152).      *)
(*                                                                         *)
(* A component is what load_component returned, with the environment it    *)
(* was bound to; loaded_in is the call that loaded it (object identity).   *)
(* A node of the graph is a component with its input bindings in keyword   *)
(* order; a binding takes a value or the output `port` of node `from`.     *)
(***************************************************************************)
StepFiles == << "prep.yml", "transform.yml", "train.yml",
                "predict.yml", "score.yml", "register.yml" >>

EnvironmentNames == {"azureml:env:1", "azureml:env:2"}
ModelNames       == {"m1", "m2"}
BuildReferences  == {"b1", "b2"}
ClusterNames     == {"cpu-cluster"}
DisplayNames     == {"run"}

Component(file, environment_name, k) ==
    [file |-> file, environment |-> environment_name, loaded_in |-> k]

Value(name, v)        == [name |-> name, from |-> 0, port |-> "", value |-> v]
Output(name, n, port) == [name |-> name, from |-> n, port |-> port, value |-> ""]
Node(component, inputs) == [component |-> component, inputs |-> inputs]

\* A mutant of nyc_taxi_data_regression: score is not given the model.
nyc_taxi_data_regression_noModel(components, pipeline_job_input, model_name, build_reference) ==
    << Node(components[1], << Value("raw_data", pipeline_job_input) >>),
       Node(components[2], << Output("clean_data", 1, "prep_data") >>),
       Node(components[3], << Output("training_data", 2, "transformed_data") >>),
       Node(components[4], << Output("model_input", 3, "model_output"),
                              Output("test_data", 3, "test_data") >>),
       Node(components[5], << Output("predictions", 4, "predictions") >>),
       Node(components[6], << Output("model_metadata", 3, "model_metadata"),
                              Value("model_name", model_name),
                              Output("score_report", 5, "score_report"),
                              Value("build_reference", build_reference) >>) >>

\* lines 41-63; components is gl_pipeline_components, whose Python positions
\* 0..5 are positions 1..6 here.
nyc_taxi_data_regression(components, pipeline_job_input, model_name, build_reference) ==
    << Node(components[1], << Value("raw_data", pipeline_job_input) >>),
       Node(components[2], << Output("clean_data", 1, "prep_data") >>),
       Node(components[3], << Output("training_data", 2, "transformed_data") >>),
       Node(components[4], << Output("model_input", 3, "model_output"),
                              Output("test_data", 3, "test_data") >>),
       Node(components[5], << Output("predictions", 4, "predictions"),
                              Output("model", 3, "model_output") >>),
       Node(components[6], << Output("model_metadata", 3, "model_metadata"),
                              Value("model_name", model_name),
                              Output("score_report", 5, "score_report"),
                              Value("build_reference", build_reference) >>) >>

\* lines 112-125: the six components of one call, bound to environment_name.
LoadComponents(environment_name, k) ==
    [i \in 1..6 |-> Component(StepFiles[i], environment_name, k)]

NoJob  == [nodes |-> << >>, display_name |-> NoneValue,
           tags |-> [environment |-> NoneValue, build_reference |-> NoneValue],
           default_compute |-> NoneValue]
NoCall == [result |-> "none", environment_name |-> NoneValue]

\* The arguments of one construct_pipeline call (lines 75-84); data_config
\* is the content of the file at data_config_path.
ConstructArgs ==
    [cluster_name       : ClusterNames,
     environment_name   : EnvironmentNames,
     display_name       : DisplayNames,
     deploy_environment : EnvNames,
     build_reference    : BuildReferences,
     model_name         : ModelNames,
     data_config        : ConfigsUpTo(1)]

\* lines 134-150: the job returned, built from the list as it is after the
\* six appends of lines 127-132.
BuildJob(gl, a, name) ==
    [nodes |-> nyc_taxi_data_regression(gl, name, a.model_name, a.build_reference),
     display_name |-> a.display_name,
     tags |-> [environment |-> a.deploy_environment,
               build_reference |-> a.build_reference],
     default_compute |-> a.cluster_name]

\* construct_pipeline (lines 101-152), the calls + 1 st call of the process.
\* The resolver's KeyError (line 107) and a failing ml_client.data.get
\* (line 109, found = FALSE) leave the call before anything is appended.
ConstructPipeline(a, found) ==
    LET r == ResolveDataset(a.data_config, a.deploy_environment)
        gl == gl_pipeline_components \o LoadComponents(a.environment_name, calls + 1)
    IN /\ calls < MaxCalls
       /\ calls' = calls + 1
       /\ IF r.raised \/ ~found
          THEN /\ last_call' = [result |-> IF r.raised THEN "KeyError" ELSE "DataError",
                                environment_name |-> a.environment_name]
               /\ UNCHANGED << gl_pipeline_components, pipeline_job >>
          ELSE /\ gl_pipeline_components' = gl
               /\ pipeline_job' = BuildJob(gl, a, r.dataset_name)
               /\ last_call' = [result |-> "ok",
                                environment_name |-> a.environment_name]
       /\ UNCHANGED resolverVars
       /\ UNCHANGED pollerVars

\* The resolver applied to the inputs drawn by InitResolver.
Resolve ==
    /\ resolver_pc = "start"
    /\ LET r == ResolveDataset(data_config, deploy_environment)
       IN /\ dataset_name' = r.dataset_name
          /\ resolver_pc' = IF r.raised THEN "KeyError" ELSE "done"
    /\ UNCHANGED << data_config, deploy_environment >>
    /\ UNCHANGED assembleVars
    /\ UNCHANGED pollerVars

(***************************************************************************)
(* execute_pipeline (lines 155-243).                                       *)
(***************************************************************************)
total_wait_time == 3600     \* line 200
SleepInterval   == 20       \* line 218: time.sleep(20)
WaitIncrement   == 15       \* line 223: current_wait_time + 15

\* lines 202-214
job_status == {"NotStarted", "Queued", "Starting", "Preparing", "Running",
               "Finalizing", "Provisioning", "CancelRequested", "Failed",
               "Canceled", "NotResponding"}

\* What the service may report: the listed statuses, the two accepted ones
\* and one that the code names nowhere.
Statuses == job_status \cup {"Completed", "Finished", "Paused"}

JobNames    == {"job_1", "job_2"}
OutputPaths == {"run_id.txt"}

NoExc        == "none"
SdkError     == "SdkError"                              \* raised by the SDK
GenericError == "Sorry, exiting job with failure.."     \* line 238

\* The statuses that keep the loop going: listed, and not breaking it.
InProgress == {"NotStarted", "Queued", "Starting", "Preparing", "Running",
               "Finalizing", "Provisioning"}

\* A mutant of WrittenContent: the job name is never persisted.
WrittenContent_never(path, name, content) == content

\* lines 195-197: the file's content after the optional write.
WrittenContent(path, name, content) ==
    IF path # NoneValue THEN name ELSE content

\* line 217
WithinBudget(t) == t <= total_wait_time

\* A mutant of NextWaitTime: the counter follows the sleep interval.
NextWaitTime_slept(t) == t + SleepInterval

\* line 223
NextWaitTime(t) == t + WaitIncrement

\* A mutant of ShouldBreak: a requested cancellation keeps polling.
ShouldBreak_noCancelRequested(s) == s \in {"Failed", "NotResponding", "Canceled"}

\* lines 225-230
ShouldBreak(s) == s \in {"Failed", "NotResponding", "CancelRequested", "Canceled"}

\* A mutant of IsSuccess: only a failed, canceled or unresponsive job counts
\* as a failure.
IsSuccess_lenient(s) == s \notin {"Failed", "Canceled", "NotResponding"}

\* A mutant of IsSuccess: Finished is not accepted.
IsSuccess_onlyCompleted(s) == s = "Completed"

\* line 235
IsSuccess(s) == s = "Completed" \/ s = "Finished"

\* line 238: the exception raised for final status s.
RaisedError(s) == GenericError

\* lines 190-192: client.jobs.create_or_update returns the submitted job.
Submit(s, n) ==
    /\ pc = "start"
    /\ pc' = "submitted"
    /\ status' = s
    /\ job_name' = n
    /\ steady' = (s \in job_status)
    /\ UNCHANGED << wait_for_completion, output_file, file_content, prior_content,
                    current_wait_time, slept, fetches, exc, exit_by >>
    /\ UNCHANGED resolverVars
    /\ UNCHANGED assembleVars

\* lines 183-192, 239-243: MLClient or create_or_update raises; re-raised.
SubmitFails ==
    /\ pc = "start"
    /\ pc' = "raised"
    /\ exc' = SdkError
    /\ UNCHANGED << wait_for_completion, output_file, file_content, prior_content,
                    job_name, status, current_wait_time, slept, fetches,
                    exit_by, steady >>
    /\ UNCHANGED resolverVars
    /\ UNCHANGED assembleVars

\* lines 194-201: the optional write of the job name, then the wait flag.
PersistName ==
    /\ pc = "submitted"
    /\ file_content' = WrittenContent(output_file, job_name, file_content)
    /\ pc' = IF wait_for_completion = "True" THEN "loop" ELSE "returned"
    /\ current_wait_time' = 0
    /\ UNCHANGED << wait_for_completion, output_file, prior_content, job_name,
                    status, slept, fetches, exc, exit_by, steady >>
    /\ UNCHANGED resolverVars
    /\ UNCHANGED assembleVars

\* lines 216-217, 232-233: the while condition and the budget check.
LoopTest ==
    /\ pc = "loop"
    /\ IF status \in job_status
       THEN IF WithinBudget(current_wait_time)
            THEN pc' = "poll" /\ UNCHANGED exit_by
            ELSE pc' = "after" /\ exit_by' = "budget"
       ELSE pc' = "after" /\ exit_by' = "cond"
    /\ UNCHANGED << wait_for_completion, output_file, file_content, prior_content,
                    job_name, status, current_wait_time, slept, fetches, exc,
                    steady >>
    /\ UNCHANGED resolverVars
    /\ UNCHANGED assembleVars

\* lines 218-231: sleep, fetch (the service reports s), count, maybe break.
Poll(s) ==
    /\ pc = "poll"
    /\ slept' = slept + SleepInterval
    /\ status' = s
    /\ fetches' = fetches + 1
    /\ current_wait_time' = NextWaitTime(current_wait_time)
    /\ steady' = (steady /\ s \in InProgress)
    /\ IF ShouldBreak(s)
       THEN pc' = "after" /\ exit_by' = "break"
       ELSE pc' = "loop" /\ UNCHANGED exit_by
    /\ UNCHANGED << wait_for_completion, output_file, file_content, prior_content,
                    job_name, exc >>
    /\ UNCHANGED resolverVars
    /\ UNCHANGED assembleVars

\* lines 218-219, 239-243: client.jobs.get raises after the sleep; re-raised.
PollFails ==
    /\ pc = "poll"
    /\ slept' = slept + SleepInterval
    /\ pc' = "raised"
    /\ exc' = SdkError
    /\ UNCHANGED << wait_for_completion, output_file, file_content, prior_content,
                    job_name, status, current_wait_time, fetches, exit_by, steady >>
    /\ UNCHANGED resolverVars
    /\ UNCHANGED assembleVars

\* lines 235-243: after the loop.
Finish ==
    /\ pc = "after"
    /\ IF IsSuccess(status)
       THEN pc' = "returned" /\ UNCHANGED exc
       ELSE pc' = "raised" /\ exc' = RaisedError(status)
    /\ UNCHANGED << wait_for_completion, output_file, file_content, prior_content,
                    job_name, status, current_wait_time, slept, fetches,
                    exit_by, steady >>
    /\ UNCHANGED resolverVars
    /\ UNCHANGED assembleVars

(***************************************************************************)
(* The specifications.                                                     *)
(***************************************************************************)
IdleResolver ==
    /\ data_config = << >>
    /\ deploy_environment = NoneValue
    /\ dataset_name = NoneValue
    /\ resolver_pc = "idle"

IdleAssemble ==
    /\ gl_pipeline_components = << >>
    /\ pipeline_job = NoJob
    /\ calls = MaxCalls
    /\ last_call = NoCall

IdlePoller ==
    /\ pc = "idle"
    /\ wait_for_completion = NoneValue
    /\ output_file = NoneValue
    /\ file_content = Absent
    /\ prior_content = Absent
    /\ job_name = NoneValue
    /\ status = NoneValue
    /\ current_wait_time = 0
    /\ slept = 0
    /\ fetches = 0
    /\ exc = NoExc
    /\ exit_by = "none"
    /\ steady = FALSE

InitResolver ==
    /\ data_config \in ConfigsUpTo(MaxEntries)
    /\ deploy_environment \in EnvNames
    /\ dataset_name = NoneValue
    /\ resolver_pc = "start"
    /\ IdleAssemble
    /\ IdlePoller

NextResolver == Resolve

SpecResolver == InitResolver /\ [][NextResolver]_vars

\* line 25: the list is empty when the module is loaded.
InitAssemble ==
    /\ gl_pipeline_components = << >>
    /\ pipeline_job = NoJob
    /\ calls = 0
    /\ last_call = NoCall
    /\ IdleResolver
    /\ IdlePoller

NextAssemble ==
    \E a \in ConstructArgs, found \in BOOLEAN : ConstructPipeline(a, found)

SpecAssemble == InitAssemble /\ [][NextAssemble]_vars

InitPoller ==
    /\ pc = "start"
    /\ wait_for_completion \in {"True", "False"}
    /\ output_file \in OutputPaths \cup {NoneValue}
    /\ prior_content \in {Absent, "stale"}
    /\ file_content = prior_content
    /\ job_name = NoneValue
    /\ status = NoneValue
    /\ current_wait_time = 0
    /\ slept = 0
    /\ fetches = 0
    /\ exc = NoExc
    /\ exit_by = "none"
    /\ steady = FALSE
    /\ IdleResolver
    /\ IdleAssemble

NextPoller ==
    \/ \E s \in Statuses, n \in JobNames : Submit(s, n)
    \/ SubmitFails
    \/ PersistName
    \/ LoopTest
    \/ \E s \in Statuses : Poll(s)
    \/ PollFails
    \/ Finish

SpecPoller == InitPoller /\ [][NextPoller]_vars

\* The interpreter keeps running the call until it returns or raises, and
\* every SDK call and every sleep returns.
FairPoller == SpecPoller /\ WF_vars(NextPoller)

(***************************************************************************)
(* Claims about the config resolver (SpecResolver).                        *)
(*                                                                         *)
(* An entry is a Dataset Config Entry: an element that carries the three   *)
(* keys DATA_PURPOSE, ENV_NAME and DATASET_NAME.  The config may hold      *)
(* other elements as well.                                                 *)
(***************************************************************************)
IsEntry(elem) ==
    elem.DATA_PURPOSE # Absent /\ elem.ENV_NAME # Absent /\ elem.DATASET_NAME # Absent

\* The positions whose ENV_NAME is the target tag.
MatchIdx == {i \in 1..Len(data_config) : data_config[i].ENV_NAME = deploy_environment}

LastMatch == CHOOSE i \in MatchIdx : \A j \in MatchIdx : j <= i

Resolved == resolver_pc \in {"done", "KeyError"}

\* C4: when the target tag appears as ENV_NAME exactly once in the config,
\* in an entry, the resolver ends without error and dataset_name is that
\* entry's DATASET_NAME.
C4_UniqueMatchResolves ==
    (Resolved /\ Cardinality(MatchIdx) = 1 /\ \A i \in MatchIdx : IsEntry(data_config[i]))
        => /\ resolver_pc = "done"
           /\ \A i \in MatchIdx : dataset_name = data_config[i].DATASET_NAME

C4_Witness ==
    /\ resolver_pc = "done"
    /\ Len(data_config) = 3
    /\ \A i \in 1..3 : IsEntry(data_config[i])
    /\ MatchIdx = {1}
    /\ data_config[1].DATASET_NAME = "d1"
    /\ data_config[3].DATASET_NAME = "d2"
    /\ dataset_name = "d1"

\* C5: when no element of the config has ENV_NAME equal to the target tag,
\* the resolver ends without error and dataset_name is None; the empty
\* config included.
C5_NoMatchIsNone ==
    (Resolved /\ MatchIdx = {})
        => resolver_pc = "done" /\ dataset_name = NoneValue

C5_Witness ==
    /\ resolver_pc = "done"
    /\ Len(data_config) = 2
    /\ \A i \in 1..2 : IsEntry(data_config[i])
    /\ MatchIdx = {}
    /\ dataset_name = NoneValue

\* C8: when several entries have ENV_NAME equal to the target tag, the
\* resolver ends without error and dataset_name is the DATASET_NAME of the
\* last of them in file order.
C8_LastMatchWins ==
    (Resolved /\ Cardinality(MatchIdx) >= 2 /\ \A i \in MatchIdx : IsEntry(data_config[i]))
        => /\ resolver_pc = "done"
           /\ dataset_name = data_config[LastMatch].DATASET_NAME

C8_Witness ==
    /\ resolver_pc = "done"
    /\ Len(data_config) = 3
    /\ MatchIdx = {1, 2}
    /\ \A i \in 1..3 : IsEntry(data_config[i])
    /\ data_config[1].DATASET_NAME = "d1"
    /\ data_config[2].DATASET_NAME = "d2"
    /\ data_config[3].DATASET_NAME = "d1"
    /\ dataset_name = "d2"

(***************************************************************************)
(* Claims about the job graph (SpecAssemble).                              *)
(***************************************************************************)
\* The output->input bindings of node j, in keyword order.
NodeEdges(nodes, j) ==
    LET ins == SelectSeq(nodes[j].inputs, LAMBDA b : b.from # 0)
    IN [k \in 1..Len(ins) |->
           [from |-> ins[k].from, port |-> ins[k].port, to |-> j, name |-> ins[k].name]]

\* The output->input bindings of nodes 1..j, in order.
RECURSIVE EdgesUpTo(_, _)
EdgesUpTo(nodes, j) ==
    IF j = 0 THEN << >> ELSE EdgesUpTo(nodes, j - 1) \o NodeEdges(nodes, j)

EdgeList(nodes) == EdgesUpTo(nodes, Len(nodes))

Edge(from, port, to, name) == [from |-> from, port |-> port, to |-> to, name |-> name]

FixedEdges ==
    << Edge(1, "prep_data", 2, "clean_data"),
       Edge(2, "transformed_data", 3, "training_data"),
       Edge(3, "model_output", 4, "model_input"),
       Edge(3, "test_data", 4, "test_data"),
       Edge(4, "predictions", 5, "predictions"),
       Edge(3, "model_output", 5, "model"),
       Edge(3, "model_metadata", 6, "model_metadata"),
       Edge(5, "score_report", 6, "score_report") >>

StepPairs(edges) == {<< edges[k].from, edges[k].to >> : k \in 1..Len(edges)}

\* C3, as stated: every job graph built has six steps and exactly five
\* output->input edges.
C3_FiveEdges ==
    pipeline_job # NoJob
        => /\ Len(pipeline_job.nodes) = 6
           /\ Len(EdgeList(pipeline_job.nodes)) = 5

\* C3, amended: every job graph built has the six steps prepare, transform,
\* train, predict, score, register in this order and exactly eight
\* output->input edges, between seven pairs of steps, the same edges in the
\* same order whatever the input values are.
C3_EightFixedEdges ==
    pipeline_job # NoJob
        => /\ Len(pipeline_job.nodes) = 6
           /\ \A i \in 1..6 : pipeline_job.nodes[i].component.file = StepFiles[i]
           /\ Len(EdgeList(pipeline_job.nodes)) = 8
           /\ EdgeList(pipeline_job.nodes) = FixedEdges
           /\ Cardinality(StepPairs(EdgeList(pipeline_job.nodes))) = 7

C3_Witness ==
    /\ calls = 2
    /\ last_call.result = "ok"
    /\ Len(gl_pipeline_components) = 12
    /\ pipeline_job.nodes[1].inputs[1].value = "d2"
    /\ pipeline_job.nodes[6].inputs[2].value = "m2"
    /\ pipeline_job.nodes[6].inputs[4].value = "b2"
    /\ Len(EdgeList(pipeline_job.nodes)) = 8

\* C9: after every call of construct_pipeline that returns a job, the six
\* steps of the job, and positions 0..5 of gl_pipeline_components, are the
\* prepare, transform, train, predict, score and register components bound
\* to the environment_name of that call.
C9_WiredFromCurrentCall ==
    last_call.result = "ok"
        => \A i \in 1..6 :
              /\ pipeline_job.nodes[i].component.file = StepFiles[i]
              /\ pipeline_job.nodes[i].component.environment
                     = last_call.environment_name
              /\ gl_pipeline_components[i].environment
                     = last_call.environment_name

(***************************************************************************)
(* Claims about execute_pipeline (SpecPoller, FairPoller).                 *)
(***************************************************************************)
Ended == pc \in {"returned", "raised"}

BreakStatuses == {"Failed", "NotResponding", "CancelRequested", "Canceled"}

\* C1: with wait_for_completion = "True", a call that ended after observing
\* a status has raised if the last status observed is Failed, Canceled or
\* NotResponding, and has returned without raising if it is Completed or
\* Finished.
C1_FinalStatusDecidesRaise ==
    (wait_for_completion = "True" /\ Ended /\ status # NoneValue)
        => /\ status \in {"Failed", "Canceled", "NotResponding"}
                => pc = "raised" /\ exc # NoExc
           /\ status \in {"Completed", "Finished"}
                => pc = "returned" /\ exc = NoExc

C1_Witness ==
    /\ wait_for_completion = "True"
    /\ pc = "raised"
    /\ status = "NotResponding"
    /\ fetches = 3
    /\ exc = GenericError

\* C2: the call always ends; once the counter exceeds the budget no further
\* status is fetched; and a loop left because the budget is exhausted is
\* followed by the call raising.
C2_BudgetEndsLoop ==
    /\ <>Ended
    /\ [][current_wait_time > total_wait_time => fetches' = fetches]_vars
    /\ [](exit_by = "budget" => <>(pc = "raised" /\ exc = GenericError))

C2_Witness ==
    /\ pc = "raised"
    /\ exit_by = "budget"
    /\ status = "Running"
    /\ steady
    /\ current_wait_time > total_wait_time

\* C6: after k fetches the counter is 15k and the time slept 20k; a loop
\* that was entered and saw an in-progress status at every fetch is left
\* after exactly 241 fetches and 4820 units of sleep, 1.33 times the budget.
C6_CounterUndercounts ==
    /\ exc # SdkError
          => /\ current_wait_time = 15 * fetches
             /\ slept = 20 * fetches
             /\ slept - current_wait_time = 5 * fetches
    /\ fetches <= 241
    /\ (steady /\ exc # SdkError /\ (pc = "after" \/ (Ended /\ wait_for_completion = "True")))
          => /\ fetches = 241
             /\ slept = 4820
             /\ current_wait_time = 3615
             /\ (slept * 100) \div total_wait_time = 133
             /\ exit_by = "budget"

C6_Witness ==
    /\ pc = "raised"
    /\ steady
    /\ exit_by = "budget"
    /\ fetches = 241
    /\ slept = 4820

\* C7: a fetch that returns Failed, NotResponding, CancelRequested or
\* Canceled leaves the loop; after that no status is fetched and the call
\* raises; and every exception raised after the loop, whether it was left
\* by such a status or by the budget, is the same generic one.
C7_BreakThenGenericError ==
    /\ [][(fetches' = fetches + 1 /\ status' \in BreakStatuses)
             => (pc' = "after" /\ exit_by' = "break")]_vars
    /\ [][exit_by = "break"
             => (fetches' = fetches /\ status' = status /\ pc' = "raised")]_vars
    /\ []((pc = "raised" /\ exit_by # "none") => exc = GenericError)

C7_Witness ==
    /\ pc = "raised"
    /\ exit_by = "break"
    /\ status = "CancelRequested"
    /\ fetches = 2
    /\ exc = GenericError

\* C10: with an output file, the file holds the job name from the step
\* after the submission returned on, before any status is fetched and in
\* every later state, however the call ends; before that step, and always
\* without an output file, the file is as it was before the call.
C10_JobNamePersisted ==
    /\ (output_file # NoneValue /\ job_name # NoneValue /\ pc # "submitted")
          => file_content = job_name
    /\ (output_file # NoneValue /\ fetches > 0) => file_content = job_name
    /\ pc = "submitted" => fetches = 0
    /\ (output_file = NoneValue \/ job_name = NoneValue \/ pc = "submitted")
          => file_content = prior_content

C10_Witness ==
    /\ pc = "raised"
    /\ exit_by = "budget"
    /\ output_file # NoneValue
    /\ prior_content = "stale"
    /\ job_name = "job_2"
    /\ file_content = "job_2"

====
